---- MODULE Spec2Model ----
(***************************************************************************)
(* HTTP authentication of django_restapi: HttpBasicAuthentication,         *)
(* HttpDigestAuthentication (authentication.py) and the place where the    *)
(* dispatchers call them (model_resource.py, resource.py).                 *)
(*                                                                         *)
(* Python strings are sequences of tokens (a token is one character or one *)
(* word that no operation of the code looks inside).  None is the empty    *)
(* option <<>>, and a value v held where None may stand is <<v>>.          *)
(***************************************************************************)
EXTENDS Naturals, Sequences, FiniteSets, TLC

\* ------------------------------------------------------------- bounds
\* challenge() calls in a run
MaxNonces == 2
\* largest nonce count a client presents, as %08x
MaxNC == 2
\* consecutive re-presentations of one request that are remembered
MaxReplay == 2

\* ------------------------------------------------------------- strings
\* str.find: the first index at which sub occurs in s, 0 when it does not
Find(s, sub) ==
  LET I == {i \in 1..(Len(s) + 1) :
              /\ i + Len(sub) - 1 <= Len(s)
              /\ SubSeq(s, i, i + Len(sub) - 1) = sub}
  IN  IF I = {} THEN 0 ELSE CHOOSE x \in I : \A y \in I : x <= y

\* Python's "sub in s" on strings
Contains(sub, s) == Find(s, sub) # 0

\* s.split(sep, 1): one piece when sep does not occur, else two
SplitOnce(s, sep) ==
  LET i == Find(s, sep)
  IN  IF i = 0 THEN <<s>>
      ELSE <<SubSeq(s, 1, i - 1), SubSeq(s, i + Len(sep), Len(s))>>

\* s.split(sep)
RECURSIVE SplitAll(_, _)
SplitAll(s, sep) ==
  LET i == Find(s, sep)
  IN  IF i = 0 THEN <<s>>
      ELSE <<SubSeq(s, 1, i - 1)>> \o SplitAll(SubSeq(s, i + Len(sep), Len(s)), sep)

\* s.strip()
RECURSIVE Strip(_)
Strip(s) ==
  IF s = <<>> THEN s
  ELSE IF Head(s) = " " THEN Strip(Tail(s))
  ELSE IF s[Len(s)] = " " THEN Strip(SubSeq(s, 1, Len(s) - 1))
  ELSE s

\* s.replace('"', '')
Unquote(s) == SelectSeq(s, LAMBDA c : c # "\"")

\* s.lower(), on the scheme words a header starts with
Lower(s) ==
  [i \in 1..Len(s) |->
     CASE s[i] \in {"Digest", "DIGEST", "digest"} -> "digest"
       [] s[i] \in {"Basic", "BASIC", "basic"} -> "basic"
       [] OTHER -> s[i]]

\* sep.join(parts)
RECURSIVE Join(_, _)
Join(parts, sep) ==
  IF parts = <<>> THEN <<>>
  ELSE IF Len(parts) = 1 THEN parts[1]
  ELSE parts[1] \o sep \o Join(Tail(parts), sep)

\* "%s:%s:..." % parts
Fmt(parts) == Join(parts, <<":">>)

\* md5.md5(s).hexdigest(), kept symbolic: distinct texts have distinct digests
MD5(s) == <<"md5(">> \o s \o <<")">>

\* The characters of a nonce count, in ASCII order: str comparison is bytewise
AsciiOrder == <<"0", "1", "2", "3", "4", "5", "6", "7", "8", "9",
                "A", "B", "C", "D", "E", "F",
                "a", "b", "c", "d", "e", "f">>
Ord(c) == CHOOSE i \in 1..Len(AsciiOrder) : AsciiOrder[i] = c

\* a <= b on two Python 2 str objects
RECURSIVE StrLE(_, _)
StrLE(a, b) ==
  IF a = <<>> THEN TRUE
  ELSE IF b = <<>> THEN FALSE
  ELSE IF Head(a) = Head(b) THEN StrLE(Tail(a), Tail(b))
  ELSE Ord(Head(a)) < Ord(Head(b))

None == <<>>
Some(v) == <<v>>

\* nc <= pnc as Python 2 evaluates it: None sorts below every str
CounterStaleNone(nc, pnc) == IF pnc = None THEN TRUE ELSE StrLE(nc, pnc[1])
CounterStaleStrict(nc, pnc) == IF pnc = None THEN FALSE ELSE StrLE(nc, pnc[1]) /\ nc # pnc[1]
CounterStale(nc, pnc) == IF pnc = None THEN FALSE ELSE StrLE(nc, pnc[1])

\* the default of amap.get('nc', ...) and of self.nonce.get(nonce, ...)
NC0 == <<"0", "0", "0", "0", "0", "0", "0", "0">>

\* ------------------------------------------------------------- requests
\* A request is [method, script, path, hasAuth, auth]: request.method,
\* META['SCRIPT_NAME'], META['PATH_INFO'], whether META has HTTP_AUTHORIZATION,
\* and its value.

\* the realm the authenticator was constructed with
Realm == <<"Test">>

\* The injected credential function of the Digest authenticator: the digest
\* key of a known user; the lookup of an unknown user raises.
digest_password(realm, username, password) == MD5(Fmt(<<username, realm, password>>))

Passwords == [u \in {<<"john">>} |-> <<"johnspass">>]

DigestAuthfunc(realm, username) ==
  IF username \in DOMAIN Passwords
  THEN [raised |-> FALSE, ha1 |-> digest_password(realm, username, Passwords[username])]
  ELSE [raised |-> TRUE, ha1 |-> <<>>]

fullpath(request) == request.script \o request.path

\* the items of "for itm in auth.split(', ')", each cut at its first "="
Items(auth) ==
  LET itms == SplitAll(auth, <<",", " ">>)
  IN  [i \in 1..Len(itms) |-> SplitOnce(itms[i], <<"=">>)]

\* "(k,v) = [...]" raises ValueError on an item that has no "="

\* amap after the loop: the last item of a key wins
AMap(auth) ==
  LET itms == Items(auth)
      key(i) == Strip(itms[i][1])
      val(i) == Unquote(Strip(itms[i][2]))
      last(k) == CHOOSE i \in 1..Len(itms) :
                   /\ key(i) = k
                   /\ \A j \in 1..Len(itms) : key(j) = k => j <= i
  IN  [k \in {key(i) : i \in 1..Len(itms)} |-> val(last(k))]

\* dict.get(k, d)
Get(d, k, default) == IF k \in DOMAIN d THEN d[k] ELSE default

RequiredFields == {<<"username">>, <<"uri">>, <<"nonce">>, <<"realm">>, <<"response">>}

\* the try block: TRUE when no lookup and no assert fails
UriAccepted(authpath, path) == Contains(SplitOnce(authpath, <<"?">>)[1], path)

RealmAcceptedAny(realm) == TRUE
RealmAccepted(realm) == realm = Realm

QopAccepted(amap) ==
  LET qop == Get(amap, <<"qop">>, <<>>)
      nc  == Get(amap, <<"nc">>, NC0)
  IN  qop # <<>> => (qop = <<"auth">> /\ amap[<<"nonce">>] # <<>> /\ nc # <<>>)

\* a try block that insists on an opaque field
TryBlockNeedsOpaque(amap, request) ==
  /\ RequiredFields \cup {<<"opaque">>} \subseteq DOMAIN amap
  /\ UriAccepted(amap[<<"uri">>], fullpath(request))
  /\ RealmAccepted(amap[<<"realm">>])
  /\ QopAccepted(amap)

TryBlock(amap, request) ==
  /\ RequiredFields \subseteq DOMAIN amap
  /\ UriAccepted(amap[<<"uri">>], fullpath(request))
  /\ RealmAccepted(amap[<<"realm">>])
  /\ QopAccepted(amap)

\* chk, and the digest the response is compared with
ExpectedResponse(ha1, amap, request) ==
  LET qop == Get(amap, <<"qop">>, <<>>)
      nc  == Get(amap, <<"nc">>, NC0)
      cnonce == Get(amap, <<"cnonce">>, <<>>)
      ha2 == MD5(Fmt(<<request.method, fullpath(request)>>))
      chk == IF qop # <<>>
             THEN Fmt(<<ha1, amap[<<"nonce">>], nc, cnonce, qop, ha2>>)
             ELSE Fmt(<<ha1, amap[<<"nonce">>], ha2>>)
  IN  MD5(chk)

\* asked: self.authfunc was called (line 140)
Outcome(out, n, c) ==
  [out |-> out, nonce |-> n, nc |-> c, asked |-> out \in {"mismatch", "match"}]

\* is_authenticated up to the comparison of the response: "False" and "Raise"
\* end the call, "mismatch" goes on to scrub the nonce, "match" to the count check
DigestHead(request) ==
  IF ~request.hasAuth THEN Outcome("False", <<>>, <<>>)
  ELSE
    LET parts == SplitOnce(request.auth, <<" ">>) IN
    IF Len(parts) # 2 THEN Outcome("Raise", <<>>, <<>>)
    ELSE IF Lower(parts[1]) # <<"digest">> THEN Outcome("False", <<>>, <<>>)
    ELSE IF \E i \in 1..Len(Items(parts[2])) : Len(Items(parts[2])[i]) # 2
    THEN Outcome("Raise", <<>>, <<>>)
    ELSE
      LET amap == AMap(parts[2]) IN
      IF ~TryBlock(amap, request) THEN Outcome("False", <<>>, <<>>)
      ELSE
        LET got == DigestAuthfunc(amap[<<"realm">>], amap[<<"username">>])
            n == amap[<<"nonce">>]
            c == Get(amap, <<"nc">>, NC0)
        IN  IF got.raised THEN [Outcome("Raise", <<>>, <<>>) EXCEPT !.asked = TRUE]
            ELSE IF amap[<<"response">>] # ExpectedResponse(got.ha1, amap, request)
            THEN Outcome("mismatch", n, c)
            ELSE Outcome("match", n, c)

\* ------------------------------------------------------------- clients
\* The requests the model presents.  A client is described by what it puts in
\* its header; Request builds the request the server receives from it.

DecTok == <<"1", "2", "3", "4", "5", "6", "7", "8", "9">>
HexTok == <<"0", "1", "2", "3", "4", "5", "6", "7", "8", "9",
            "a", "b", "c", "d", "e", "f">>

\* "%s:%s" % (time.time(), random.random()) of the i-th draw: no two draws agree
Draw(i) == Fmt(<<<<"time", DecTok[i]>>, <<"random", DecTok[i]>>>>)

\* the nonce and the opaque value of the k-th challenge() call
NonceOf(k) == MD5(Draw(2 * k - 1))
OpaqueOf(k) == MD5(Draw(2 * k))

\* a nonce value no challenge() ever issued
ForgedNonce == <<"forged">>

\* "%08x" % n, for n < 16
NCStr(n) == SubSeq(NC0, 1, Len(NC0) - 1) \o <<HexTok[n + 1]>>

PollsPath == <<"/", "digest", "/", "polls", "/">>


ClientResponse(b) ==
  LET ha1 == digest_password(b.realm, b.username, b.pw)
      ha2 == MD5(Fmt(<<b.method, b.digesturi>>))
  IN  IF "qop" \in b.omit
      THEN MD5(Fmt(<<ha1, b.nonce, ha2>>))
      ELSE MD5(Fmt(<<ha1, b.nonce, b.rnc, b.cnonce, b.qop, ha2>>))

Request(b) ==
  LET all == << <<"username", b.username>>, <<"realm", b.realm>>,
                <<"nonce", b.nonce>>, <<"uri", b.uri>>,
                <<"response", ClientResponse(b)>>, <<"qop", b.qop>>,
                <<"nc", b.nc>>, <<"cnonce", b.cnonce>>, <<"opaque", b.opaque>> >>
      kept == SelectSeq(all, LAMBDA f : f[1] \notin b.omit)
      items == [i \in 1..Len(kept) |-> <<kept[i][1], "=", "\"">> \o kept[i][2] \o <<"\"">>]
      params == Join(items, <<",", " ">>) \o b.extra
  IN  [method |-> b.method, script |-> <<>>, path |-> PollsPath,
       hasAuth |-> b.shape # "absent",
       auth |-> CASE b.shape = "absent" -> <<>>
                  [] b.shape = "nospace" -> <<b.scheme>>
                  [] OTHER -> <<b.scheme, " ">> \o params]

\* the well-formed client: it answers nonce n with count c and password pw
Base(n, c, pw) ==
  [scheme |-> "Digest", shape |-> "full", username |-> <<"john">>,
   realm |-> Realm, nonce |-> n, uri |-> PollsPath, digesturi |-> PollsPath,
   qop |-> <<"auth">>, nc |-> c, rnc |-> c, cnonce |-> <<"abc">>,
   opaque |-> OpaqueOf(1), method |-> <<"GET">>, pw |-> pw,
   omit |-> {}, extra |-> <<>>]


Deviate(b, dev) ==
  CASE dev = "ok" -> b
    [] dev = "absent" -> [b EXCEPT !.shape = "absent"]
    [] dev = "nospace" -> [b EXCEPT !.shape = "nospace"]
    [] dev = "basic" -> [b EXCEPT !.scheme = "Basic"]
    [] dev = "upper" -> [b EXCEPT !.scheme = "DIGEST"]
    [] dev = "noeq" -> [b EXCEPT !.extra = <<",", " ", "auth">>]
    [] dev = "no_username" -> [b EXCEPT !.omit = {"username"}]
    [] dev = "no_uri" -> [b EXCEPT !.omit = {"uri"}]
    [] dev = "no_nonce" -> [b EXCEPT !.omit = {"nonce"}]
    [] dev = "no_realm" -> [b EXCEPT !.omit = {"realm"}]
    [] dev = "no_response" -> [b EXCEPT !.omit = {"response"}]
    [] dev = "realm_other" -> [b EXCEPT !.realm = <<"Other">>]
    [] dev = "uri_part" -> [b EXCEPT !.uri = <<"/", "polls", "/">>]
    [] dev = "uri_part_own" ->
         [b EXCEPT !.uri = <<"/", "polls", "/">>, !.digesturi = <<"/", "polls", "/">>]
    [] dev = "uri_other" -> [b EXCEPT !.uri = <<"/", "digest", "/", "choices", "/">>]
    [] dev = "uri_query" -> [b EXCEPT !.uri = PollsPath \o <<"?", "page", "=", "2">>]
    [] dev = "user_unknown" -> [b EXCEPT !.username = <<"mary">>]
    [] dev = "noqop" -> [b EXCEPT !.omit = {"qop", "nc", "cnonce"}]
    [] dev = "qop_int" -> [b EXCEPT !.qop = <<"auth-int">>]
    [] dev = "qop_nonc" -> [b EXCEPT !.omit = {"nc"}, !.rnc = NC0]
    [] dev = "post" -> [b EXCEPT !.method = <<"POST">>]
    [] dev = "no_opaque" -> [b EXCEPT !.omit = {"opaque"}]
    [] dev = "opaque_other" -> [b EXCEPT !.opaque = OpaqueOf(2)]

ClientPasswords == {<<"johnspass">>, <<"wrong_password">>}

\* the requests of concurrent runs: well-formed answers to issued nonces, with
\* the right password and any count above zero, or with a wrong password
ConcRequests ==
  {Request(Base(NonceOf(k), NCStr(n), <<"johnspass">>)) : k \in 1..MaxNonces, n \in 1..MaxNC}
  \cup {Request(Base(NonceOf(k), NCStr(1), <<"wrong_password">>)) : k \in 1..MaxNonces}

\* the requests of sequential runs: every well-formed one, and each deviation
\* from the well-formed answer to the first nonce
Requests ==
  {Request(Base(n, NCStr(c), pw)) :
     n \in {NonceOf(k) : k \in 1..MaxNonces} \cup {ForgedNonce},
     c \in 0..MaxNC, pw \in ClientPasswords}
  \cup {Request(Deviate(Base(NonceOf(1), NCStr(1), <<"johnspass">>), dev)) :
          dev \in {"absent", "nospace", "basic", "upper", "noeq", "no_username", "no_uri",
                   "no_nonce", "no_realm", "no_response", "realm_other", "uri_part",
                   "uri_part_own", "uri_other", "uri_query", "user_unknown", "noqop",
                   "qop_int", "qop_nonc", "post", "no_opaque", "opaque_other"}}

\* DigestHead of every request, computed once
HeadOf == [r \in Requests |-> DigestHead(r)]

\* the nonce values a request's header names

NoncesOf ==
  [r \in Requests |->
     IF ~r.hasAuth \/ Find(r.auth, <<" ">>) = 0 THEN {}
     ELSE LET itms == Items(SplitOnce(r.auth, <<" ">>)[2])
          IN  {Unquote(Strip(itms[i][2])) :
                 i \in {j \in 1..Len(itms) :
                          Len(itms[j]) = 2 /\ Strip(itms[j][1]) = <<"nonce">>}}]

\* ------------------------------------------------------------- HttpBasicAuthentication
\* Credentials are byte strings: sequences of numbers 0..255.  The header is a
\* sequence of tokens, its parameter one token per base64 character.

\* the characters credentials are written in, and their bytes
CredChars == <<"a", "b", ":">>
Colon == 58

Bytes(s) ==
  [i \in 1..Len(s) |-> <<97, 98, 58>>[CHOOSE j \in 1..Len(CredChars) : CredChars[j] = s[i]]]

\* the base64 alphabet, in the order of its values 0..63
B64 == <<"A", "B", "C", "D", "E", "F", "G", "H", "I", "J", "K", "L", "M",
         "N", "O", "P", "Q", "R", "S", "T", "U", "V", "W", "X", "Y", "Z",
         "a", "b", "c", "d", "e", "f", "g", "h", "i", "j", "k", "l", "m",
         "n", "o", "p", "q", "r", "s", "t", "u", "v", "w", "x", "y", "z",
         "0", "1", "2", "3", "4", "5", "6", "7", "8", "9", "+", "/">>
B64Set == {B64[i] : i \in 1..Len(B64)}

RECURSIVE Pow2(_)
Pow2(n) == IF n = 0 THEN 1 ELSE 2 * Pow2(n - 1)

\* binascii.a2b_base64, which str.decode('base64') ends in: characters outside
\* the alphabet are skipped, a pad ends the input once the quad may end there,
\* and bits left over at the end raise binascii.Error
RECURSIVE A2B(_, _, _, _, _, _)
A2B(s, i, quad, leftchar, leftbits, out) ==
  IF i > Len(s)
  THEN [raised |-> leftbits # 0, data |-> out]
  ELSE
    LET c == s[i] IN
    IF c = "="
    THEN LET later == SelectSeq(SubSeq(s, i + 1, Len(s)), LAMBDA x : x \in B64Set \cup {"="})
             honoured == \/ quad = 3
                         \/ quad = 2 /\ later # <<>> /\ Head(later) = "="
         IN  IF quad < 2 \/ ~honoured
             THEN A2B(s, i + 1, quad, leftchar, leftbits, out)
             ELSE [raised |-> FALSE, data |-> out]
    ELSE IF c \notin B64Set
    THEN A2B(s, i + 1, quad, leftchar, leftbits, out)
    ELSE
      LET lc == leftchar * 64 + (CHOOSE k \in 1..Len(B64) : B64[k] = c) - 1
          lb == leftbits + 6
      IN  IF lb >= 8
          THEN A2B(s, i + 1, (quad + 1) % 4, lc % Pow2(lb - 8), lb - 8,
                   Append(out, (lc \div Pow2(lb - 8)) % 256))
          ELSE A2B(s, i + 1, (quad + 1) % 4, lc, lb, out)

Base64Decode(s) == A2B(s, 1, 0, 0, 0, <<>>)

\* the users of django.contrib.auth, name -> password
Users ==
  [u \in {Bytes(<<"a">>), Bytes(<<"b">>)} |->
     IF u = Bytes(<<"a">>) THEN Bytes(<<"b">>) ELSE Bytes(<<":", "a">>)]

\* djangouser_auth(username, password)
djangouser_auth(username, password) ==
  username \in DOMAIN Users /\ Users[username] = password

\* auth.split(':', 1): the decoded value is cut at its first colon
CredentialsAtLastColon(data) ==
  LET I == {i \in 1..Len(data) : data[i] = Colon}
  IN  IF I = {} THEN <<data>>
      ELSE LET i == CHOOSE x \in I : \A y \in I : y <= x
           IN  <<SubSeq(data, 1, i - 1), SubSeq(data, i + 1, Len(data))>>
Credentials(data) == SplitOnce(data, <<Colon>>)

\* HttpBasicAuthentication.is_authenticated(request): "True", "False" or "Raise"
BasicVerdict(request) ==
  IF ~request.hasAuth THEN "False"
  ELSE
    LET parts == SplitOnce(request.auth, <<" ">>) IN
    IF Len(parts) # 2 THEN "Raise"
    ELSE IF Lower(parts[1]) # <<"basic">> THEN "False"
    ELSE
      LET dec == Base64Decode(Strip(parts[2])) IN
      IF dec.raised THEN "Raise"
      ELSE
        LET cred == Credentials(dec.data) IN
        IF Len(cred) # 2 THEN "Raise"
        ELSE IF djangouser_auth(cred[1], cred[2]) THEN "True" ELSE "False"

\* base64.b64encode, as a client applies it to "username:password"
RECURSIVE B64Encode(_)
B64Encode(b) ==
  IF b = <<>> THEN <<>>
  ELSE IF Len(b) = 1
  THEN <<B64[(b[1] \div 4) + 1], B64[(b[1] % 4) * 16 + 1], "=", "=">>
  ELSE IF Len(b) = 2
  THEN <<B64[(b[1] \div 4) + 1], B64[(b[1] % 4) * 16 + (b[2] \div 16) + 1],
         B64[(b[2] % 16) * 4 + 1], "=">>
  ELSE <<B64[(b[1] \div 4) + 1], B64[(b[1] % 4) * 16 + (b[2] \div 16) + 1],
         B64[(b[2] % 16) * 4 + (b[3] \div 64) + 1], B64[(b[3] % 64) + 1]>>
       \o B64Encode(SubSeq(b, 4, Len(b)))

\* longest username and password a client sends
MaxCred == 2

RECURSIVE StringsUpTo(_)
StringsUpTo(n) ==
  IF n = 0 THEN {<<>>}
  ELSE LET shorter == StringsUpTo(n - 1)
       IN  shorter \cup {Append(t, CredChars[j]) : t \in shorter, j \in 1..Len(CredChars)}

CredStrings == StringsUpTo(MaxCred)

BasicRequest(scheme, shape, param) ==
  [method |-> <<"GET">>, script |-> <<>>, path |-> <<"/", "basic", "/", "polls", "/">>,
   hasAuth |-> shape # "absent",
   auth |-> CASE shape = "absent" -> <<>>
              [] shape = "nospace" -> <<scheme>>
              [] OTHER -> <<scheme, " ">> \o param]

\* what clients send: the encoding of every "username:password", with the
\* scheme in any case or the Digest scheme; a parameter cut short or with its
\* padding dropped; the encoding of a username alone; no parameter; no header
BasicRequests ==
  {BasicRequest("Basic", "full", B64Encode(Bytes(u \o <<":">> \o pw))) :
     u \in CredStrings, pw \in CredStrings}
  \cup {BasicRequest(sch, "full", B64Encode(Bytes(<<"a", ":", "b">>))) :
          sch \in {"BASIC", "basic", "Digest"}}
  \cup {BasicRequest("Basic", "full", SubSeq(B64Encode(Bytes(<<"a", ":", "b">>)), 1, n)) :
          n \in 0..3}
  \cup {BasicRequest("Basic", "full", SubSeq(B64Encode(Bytes(<<"a", ":">>)), 1, n)) :
          n \in 2..3}
  \cup {BasicRequest("Basic", "full", B64Encode(Bytes(u))) : u \in {<<"a">>, <<"a", "b">>}}
  \cup {BasicRequest("Basic", shape, <<>>) : shape \in {"nospace", "absent"}}

BasicVerdictOf == [r \in BasicRequests |-> BasicVerdict(r)]

\* ------------------------------------------------------------- models
\* largest primary key the database hands out
MaxModels == 2

\* The Poll table: primary key -> [question, pub_date].  POST and PUT data is a
\* function from field names to the strings sent.
Q1 == <<"Does this work?">>
Q2 == <<"Yes, it works.">>
D1 == <<"2001", "-", "01", "-", "01">>
D2 == <<"2007", "-", "07", "-", "07">>
DBad == <<"2007", "-", "07", "-", "07", "-", "123">>


\* the clean() of the pub_date form field: the date, or None when the text is
\* not year-month-day
DateParseLoose(s) ==
  LET parts == SplitAll(s, <<"-">>)
  IN  IF Len(parts) >= 3 /\ \A i \in 1..3 : Len(parts[i]) = 1
      THEN Some([year |-> parts[1][1], month |-> parts[2][1], day |-> parts[3][1]])
      ELSE None

DateParse(s) ==
  LET parts == SplitAll(s, <<"-">>)
  IN  IF /\ Len(parts) = 3
         /\ \A i \in 1..3 : Len(parts[i]) = 1
         /\ parts[1][1] \in {"2001", "2007"}
         /\ parts[2][1] \in {"01", "07"} /\ parts[3][1] \in {"01", "07"}
      THEN Some([year |-> parts[1][1], month |-> parts[2][1], day |-> parts[3][1]])
      ELSE None

\* f.errors of the form made from the Poll model, as the names of the fields
\* it complains of: both fields are required
errors(data) ==
  {f \in {"question"} : f \notin DOMAIN data \/ data[f] = <<>>}
  \cup {f \in {"pub_date"} : f \notin DOMAIN data \/ DateParse(data[f]) = None}

\* f.is_valid()
is_valid(data) == errors(data) = {}

\* the model f.save() writes
Cleaned(data) == [question |-> data["question"], pub_date |-> DateParse(data["pub_date"])[1]]

NoData == [f \in {} |-> <<>>]

\* is_entry, url_parts['ident'] and the request's data.  Clients post and put
\* nothing, a question alone, complete data, and complete data whose date is
\* malformed
NoArgs == [is_entry |-> FALSE, ident |-> 0, data |-> NoData]
Args ==
  [is_entry : BOOLEAN, ident : 1..MaxModels,
   data : {NoData,
           "question" :> Q1,
           "question" :> Q1 @@ "pub_date" :> D1,
           "question" :> Q2 @@ "pub_date" :> D2,
           "question" :> Q2 @@ "pub_date" :> DBad}]

\* what a dispatch did so far: the CRUD methods it called, its Location
\* header, and the form errors its response lists
NoTrail == [called |-> {}, location |-> None, errors |-> {}]

\* Entry.get_url()
EntryUrl(base, pk) == base \o <<pk, "/">>

\* ------------------------------------------------------------- state
\* threads that serve requests at the same time
NumProcs == 2
Procs == 1..NumProcs

VARIABLES
  nonce,    \* self.nonce of the HttpDigestAuthentication: nonce -> None or last nc
  draws,    \* challenge() calls so far: each draws a new time and random value
  pc,       \* where each thread stands
  call,     \* the request a thread is serving, or served last
  loc,      \* the thread's locals nonce, nc and pnc in is_authenticated
  result,   \* what the thread's is_authenticated returned: "True", "False", "Raise"
  target,   \* the resource whose dispatch the thread runs, if it runs one
  resp,     \* what that dispatch gave back: a status, or "Raise"
  hist,     \* results of the presentations of call[p] just before this one
  overlap,  \* the threads whose call ran while this thread's call ran
  db,       \* the Poll table
  args,     \* is_entry, ident and data of the dispatch the thread runs
  trail,    \* the CRUD methods that dispatch called, and its Location header
  basic,    \* the attributes of the HttpBasicAuthentication
  serialize, \* field.serialize of the fields of the Choice model
  rnd       \* each thread's place in SerializeResponder.render, and its locals

vars == <<nonce, draws, pc, call, loc, result, target, resp, hist, overlap, db, args, trail, basic, serialize, rnd>>

NoRequest == [method |-> <<>>, script |-> <<>>, path |-> <<>>, hasAuth |-> FALSE, auth |-> <<>>]
NoLocals == [nonce |-> <<>>, nc |-> <<>>, pnc |-> None, asked |-> FALSE]
\* the fields of the Choice model next to its primary key, and the
\* expose_fields of the choice resources
ModelFields == <<"poll", "choice", "votes">>
expose_fields == {"id", "poll_id", "choice"}
Range(s) == {s[i] : i \in 1..Len(s)}

\* a thread that is not in render; i is the place in the loop over the fields,
\* response the fields that serializers.serialize wrote, before the fields
\* whose serialize flag was set when the call began
NoRender == [pc |-> "idle", i |-> 0, hidden_fields |-> {}, response |-> {}, before |-> {}]

\* HttpBasicAuthentication(): self.realm and self.authfunc after __init__
BasicSelf == [realm |-> <<"Restricted Access">>, authfunc |-> "djangouser_auth"]

NoResource == [dispatcher |-> "None", authentication |-> "None", permitted_methods |-> {}]

Init ==
  /\ nonce = [n \in {} |-> None]
  /\ draws = 0
  /\ pc = [p \in Procs |-> "idle"]
  /\ call = [p \in Procs |-> NoRequest]
  /\ loc = [p \in Procs |-> NoLocals]
  /\ result = [p \in Procs |-> "none"]
  /\ target = [p \in Procs |-> NoResource]
  /\ resp = [p \in Procs |-> "none"]
  /\ hist = [p \in Procs |-> <<>>]
  /\ overlap = [p \in Procs |-> {}]
  /\ db = (1 :> Cleaned("question" :> Q1 @@ "pub_date" :> D1))
  /\ args = [p \in Procs |-> NoArgs]
  /\ trail = [p \in Procs |-> NoTrail]
  /\ basic = BasicSelf
  /\ serialize = [f \in Range(ModelFields) |-> TRUE]
  /\ rnd = [p \in Procs |-> NoRender]

\* self.nonce[k] = v and del self.nonce[k]
PutAlone(d, k, v) == [x \in {k} |-> v]
Put(d, k, v) == [x \in DOMAIN d \cup {k} |-> IF x = k THEN v ELSE d[x]]
DelNothing(d, k) == d
Del(d, k) == [x \in DOMAIN d \ {k} |-> d[x]]

\* the thread is between the call and the return of is_authenticated or dispatch
InFlight(p) == pc[p] \notin {"idle", "done", "replied"}

Finish(p, res) ==
  /\ pc' = [pc EXCEPT ![p] = "done"]
  /\ result' = [result EXCEPT ![p] = res]

Goto(p, line) ==
  /\ pc' = [pc EXCEPT ![p] = line]
  /\ UNCHANGED result

\* ------------------------------------------------------------- HttpDigestAuthentication
\* the response challenge() builds on its k-th call
DigestChallenge(k) ==
  [status_code |-> 401, scheme |-> "Digest", realm |-> Realm, qop |-> <<"auth">>,
   nonce |-> NonceOf(k), opaque |-> OpaqueOf(k)]

\* challenge(): only the insertion touches shared state
InsertCounted ==
  /\ draws < MaxNonces
  /\ draws' = draws + 1
  /\ nonce' = Put(nonce, NonceOf(draws + 1), Some(NC0))
Insert ==
  /\ draws < MaxNonces
  /\ draws' = draws + 1
  /\ nonce' = Put(nonce, NonceOf(draws + 1), None)

challenge ==
  /\ Insert
  /\ UNCHANGED <<pc, call, loc, result, target, resp, hist, overlap, db, args, trail, basic, serialize, rnd>>

\* a thread is handed request r and enters is_authenticated(r)
Enter(p, r, h) ==
  /\ pc' = [pc EXCEPT ![p] = "l114"]
  /\ call' = [call EXCEPT ![p] = r]
  /\ loc' = [loc EXCEPT ![p] = NoLocals]
  /\ result' = [result EXCEPT ![p] = "none"]
  /\ hist' = [hist EXCEPT ![p] = h]
  /\ overlap' = [q \in Procs |->
                   IF q = p THEN {x \in Procs \ {p} : InFlight(x)}
                   ELSE IF InFlight(q) THEN overlap[q] \cup {p}
                   ELSE overlap[q] \ {p}]
  /\ UNCHANGED <<nonce, draws>>

\* A nonce is the digest of the time and a random number (lines 93-94): a
\* client names a nonce only after a challenge has shown it, or invents one
\* that challenge() never issues
Known(r) == NoncesOf[r] \subseteq {NonceOf(k) : k \in 1..draws} \cup {ForgedNonce}

Begin(p, r) ==
  /\ pc[p] \in {"idle", "done"}
  /\ Known(r)
  /\ Enter(p, r, <<>>)
  /\ UNCHANGED <<target, resp, db, args, trail, basic, serialize, rnd>>

\* the client presents the request of the call that just ended once more
Replay(p) ==
  /\ pc[p] = "done"
  /\ Len(hist[p]) < MaxReplay
  /\ Enter(p, call[p], Append(hist[p], result[p]))
  /\ UNCHANGED <<target, resp, db, args, trail, basic, serialize, rnd>>

\* lines 114-146: everything up to the comparison of the response reads the
\* request and the authenticator's constants only
l114(p) ==
  /\ pc[p] = "l114"
  /\ LET o == HeadOf[call[p]] IN
       /\ loc' = [loc EXCEPT ![p] =
                    [nonce |-> o.nonce, nc |-> o.nc, pnc |-> None, asked |-> o.asked]]
       /\ CASE o.out = "False" -> Finish(p, "False")
            [] o.out = "Raise" -> Finish(p, "Raise")
            [] o.out = "mismatch" -> Goto(p, "l147")
            [] o.out = "match" -> Goto(p, "l150")
  /\ UNCHANGED <<nonce, draws, call, target, resp, hist, overlap, db, args, trail, basic, serialize, rnd>>

\* "if nonce in self.nonce:" of lines 147 and 152
Member(p, here, del) ==
  /\ pc[p] = here
  /\ IF loc[p].nonce \in DOMAIN nonce THEN Goto(p, del) ELSE Finish(p, "False")
  /\ UNCHANGED <<nonce, draws, call, loc, target, resp, hist, overlap, db, args, trail, basic, serialize, rnd>>

\* "del self.nonce[nonce]; return False" of lines 148-149 and 153-154:
\* del raises KeyError when another thread deleted the key first
Delete(p, here) ==
  /\ pc[p] = here
  /\ IF loc[p].nonce \in DOMAIN nonce
     THEN /\ nonce' = Del(nonce, loc[p].nonce)
          /\ Finish(p, "False")
     ELSE /\ UNCHANGED nonce
          /\ Finish(p, "Raise")
  /\ UNCHANGED <<draws, call, loc, target, resp, hist, overlap, db, args, trail, basic, serialize, rnd>>

l147(p) == Member(p, "l147", "l148")
l148(p) == Delete(p, "l148")

\* lines 150-151: read the stored count and compare
l150(p) ==
  /\ pc[p] = "l150"
  /\ LET pnc == Get(nonce, loc[p].nonce, Some(NC0)) IN
       /\ loc' = [loc EXCEPT ![p].pnc = pnc]
       /\ IF CounterStale(loc[p].nc, pnc) THEN Goto(p, "l152") ELSE Goto(p, "l155")
  /\ UNCHANGED <<nonce, draws, call, target, resp, hist, overlap, db, args, trail, basic, serialize, rnd>>

l152(p) == Member(p, "l152", "l153")
l153(p) == Delete(p, "l153")

\* lines 155-156
l155(p) ==
  /\ pc[p] = "l155"
  /\ nonce' = Put(nonce, loc[p].nonce, Some(loc[p].nc))
  /\ Finish(p, "True")
  /\ UNCHANGED <<draws, call, loc, target, resp, hist, overlap, db, args, trail, basic, serialize, rnd>>

is_authenticated(p) ==
  l114(p) \/ l147(p) \/ l148(p) \/ l150(p) \/ l152(p) \/ l153(p) \/ l155(p)

\* Threads serve requests concurrently, switching between any two statements
Next ==
  \/ challenge
  \/ \E p \in Procs : \E r \in ConcRequests : Begin(p, r)
  \/ \E p \in Procs : is_authenticated(p)

Spec == Init /\ [][Next]_vars

\* One thread serves one request after the other
Main == CHOOSE p \in Procs : \A q \in Procs : p <= q

SeqNext ==
  \/ ~InFlight(Main) /\ challenge
  \/ \E r \in Requests : Begin(Main, r)
  \/ is_authenticated(Main)

SeqSpec == Init /\ [][SeqNext]_vars

\* One thread serves one client that repeats its request
ReplayNext ==
  \/ ~InFlight(Main) /\ challenge
  \/ \E r \in ConcRequests : Begin(Main, r)
  \/ Replay(Main)
  \/ is_authenticated(Main)

ReplaySpec == Init /\ [][ReplayNext]_vars

\* ------------------------------------------------------------- HttpBasicAuthentication
\* is_authenticated keeps and shares nothing: one step
\* an authenticator that remembers whom it accepted
basic_is_authenticatedSticky(p, r) ==
  /\ pc[p] \in {"idle", "done", "replied"}
  /\ call' = [call EXCEPT ![p] = r]
  /\ Finish(p, IF result[p] = "True" THEN "True" ELSE BasicVerdictOf[r])
  /\ UNCHANGED <<nonce, draws, loc, target, resp, hist, overlap, db, args, trail, basic, serialize, rnd>>

basic_is_authenticated(p, r) ==
  /\ pc[p] \in {"idle", "done", "replied"}
  /\ call' = [call EXCEPT ![p] = r]
  /\ Finish(p, BasicVerdictOf[r])
  /\ UNCHANGED <<nonce, draws, loc, target, resp, hist, overlap, db, args, trail, basic, serialize, rnd>>

\* challenge(): a 401 response that names the realm; no attribute is assigned
basic_challenge(p) ==
  /\ pc[p] = "done" /\ result[p] = "False"
  /\ pc' = [pc EXCEPT ![p] = "replied"]
  /\ resp' = [resp EXCEPT ![p] = "401"]
  /\ UNCHANGED <<nonce, draws, call, loc, result, target, hist, overlap, db, args, trail, basic, serialize, rnd>>

BasicNext == \E r \in BasicRequests : basic_is_authenticated(Main, r)

BasicSpec == Init /\ [][BasicNext]_vars

\* ------------------------------------------------------------- Collection.dispatch
\* The resources: the two the authentication tests address, the Poll
\* collections of urls.py that permit every method and GET only, and a
\* generic Resource with an authenticator.
Resources ==
  {[dispatcher |-> "Collection", authentication |-> "digest", permitted_methods |-> {<<"GET">>}],
   [dispatcher |-> "Collection", authentication |-> "basic", permitted_methods |-> {<<"GET">>}],
   [dispatcher |-> "Collection", authentication |-> "None",
    permitted_methods |-> {<<"GET">>, <<"POST">>, <<"PUT">>, <<"DELETE">>}],
   [dispatcher |-> "Collection", authentication |-> "None", permitted_methods |-> {<<"GET">>}],
   [dispatcher |-> "Resource", authentication |-> "basic",
    permitted_methods |-> {<<"GET">>, <<"POST">>}]}

\* get_url() of the Poll collections
CollectionUrl == <<"xml", "/", "polls", "/">>

\* requests that carry no Authorization header


\* what clients send to the resources behind an authenticator: answers to the first nonce, the
\* requests that make the authenticators return False and raise, and a POST
DispatchRequests ==
  {Request(Base(NonceOf(1), NCStr(n), pw)) : n \in 1..MaxNC, pw \in ClientPasswords}
  \cup {Request(Deviate(Base(NonceOf(1), NCStr(1), <<"johnspass">>), dev)) :
          dev \in {"absent", "nospace", "user_unknown", "post"}}
  \cup {BasicRequest("Basic", "full", B64Encode(Bytes(c))) :
          c \in {<<"a", ":", "b">>, <<"a", ":", "a">>, <<"a">>}}
  \cup {BasicRequest("Basic", shape, <<>>) : shape \in {"nospace", "absent"}}

\* what clients send to the Poll collections
PollRequests ==
  {[method |-> m, script |-> <<>>, path |-> <<"/">> \o CollectionUrl,
    hasAuth |-> FALSE, auth |-> <<>>] :
     m \in {<<"GET">>, <<"POST">>, <<"PUT">>, <<"DELETE">>, <<"HEAD">>}}

Reply(p, status) ==
  /\ pc' = [pc EXCEPT ![p] = "replied"]
  /\ resp' = [resp EXCEPT ![p] = status]

Calls(p, method) == [trail EXCEPT ![p].called = @ \cup {method}]

\* dispatch(request, is_entry, **url_parts), or __call__(request), is called on
\* resource res: line 108 and the call of line 109.  The Basic authenticator
\* answers in the same step.
dispatch(p, res, r, a) ==
  /\ pc[p] \in {"idle", "replied"}
  /\ target' = [target EXCEPT ![p] = res]
  /\ resp' = [resp EXCEPT ![p] = "none"]
  /\ args' = [args EXCEPT ![p] = a]
  /\ trail' = [trail EXCEPT ![p] = NoTrail]
  /\ UNCHANGED <<db, basic, serialize, rnd>>
  /\ \/ /\ res.authentication = "digest"
        /\ r \in Requests /\ Known(r)
        /\ Enter(p, r, <<>>)
     \/ /\ res.authentication = "basic"
        /\ r \notin Requests
        /\ call' = [call EXCEPT ![p] = r]
        /\ Finish(p, IF r \in BasicRequests THEN BasicVerdictOf[r] ELSE BasicVerdict(r))
        /\ UNCHANGED <<nonce, draws, loc, hist, overlap>>
     \/ /\ res.authentication = "None"
        /\ call' = [call EXCEPT ![p] = r]
        /\ pc' = [pc EXCEPT ![p] = "l111"]
        /\ result' = [result EXCEPT ![p] = "none"]
        /\ UNCHANGED <<nonce, draws, loc, hist, overlap>>

\* lines 109-110: is_authenticated returned False, dispatch returns challenge()
l110(p) ==
  /\ pc[p] = "done" /\ target[p] # NoResource
  /\ target[p].dispatcher = "Collection"
  /\ result[p] = "False"
  /\ IF target[p].authentication = "digest" THEN Insert ELSE UNCHANGED <<nonce, draws>>
  /\ Reply(p, "401")
  /\ UNCHANGED <<call, loc, result, target, hist, overlap, db, args, trail, basic, serialize, rnd>>

\* Resource.__call__ lines 66-71: is_authenticated returned False.  resource.py
\* imports no HttpResponse, so line 67 raises NameError
l67(p) ==
  /\ pc[p] = "done" /\ target[p] # NoResource
  /\ target[p].dispatcher = "Resource"
  /\ result[p] = "False"
  /\ Reply(p, "Raise")
  /\ UNCHANGED <<nonce, draws, call, loc, result, target, hist, overlap, db, args, trail, basic, serialize, rnd>>

\* line 109: is_authenticated raised, and nothing in dispatch catches it
l109_raise(p) ==
  /\ pc[p] = "done" /\ target[p] # NoResource
  /\ result[p] = "Raise"
  /\ Reply(p, "Raise")
  /\ UNCHANGED <<nonce, draws, call, loc, result, target, hist, overlap, db, args, trail, basic, serialize, rnd>>

\* lines 111-116 (72-74 of Resource.__call__): the method check
MethodRefusedNever(p) == FALSE
MethodRefused(p) == call[p].method \notin target[p].permitted_methods

l111(p) ==
  /\ target[p] # NoResource
  /\ \/ pc[p] = "done" /\ result[p] = "True"
     \/ pc[p] = "l111"
  /\ IF MethodRefused(p)
     THEN Reply(p, "405")
     ELSE /\ pc' = [pc EXCEPT ![p] = IF target[p].dispatcher = "Collection" THEN "l120" ELSE "l76"]
          /\ UNCHANGED resp
  /\ UNCHANGED <<nonce, draws, call, loc, result, target, hist, overlap, db, args, trail, basic, serialize, rnd>>

\* get_entry with a dispatch that catches no DoesNotExist
get_entry_failsUncaught(p) ==
  /\ pc[p] = "l120"
  /\ args[p].is_entry /\ args[p].ident \notin DOMAIN db
  /\ Reply(p, "Raise")
  /\ UNCHANGED <<nonce, draws, call, loc, result, target, hist, overlap, db, args, trail, basic, serialize, rnd>>

\* line 122: get_entry finds no model with this primary key; DoesNotExist is
\* caught at line 135
get_entry_fails(p) ==
  /\ pc[p] = "l120"
  /\ args[p].is_entry /\ args[p].ident \notin DOMAIN db
  /\ Reply(p, "404")
  /\ UNCHANGED <<nonce, draws, call, loc, result, target, hist, overlap, db, args, trail, basic, serialize, rnd>>

\* lines 123-124: Entry.read
entry_read(p) ==
  /\ pc[p] = "l120"
  /\ args[p].is_entry /\ args[p].ident \in DOMAIN db
  /\ call[p].method = <<"GET">>
  /\ trail' = Calls(p, "read")
  /\ Reply(p, "200")
  /\ UNCHANGED <<nonce, draws, call, loc, result, target, hist, overlap, db, args, basic, serialize, rnd>>

\* lines 125-127 and Entry.update; InvalidModelData is caught at line 138 and
\* its errors go into the response of line 140
entry_update(p) ==
  /\ pc[p] = "l120"
  /\ args[p].is_entry /\ args[p].ident \in DOMAIN db
  /\ call[p].method = <<"PUT">>
  /\ IF is_valid(args[p].data)
     THEN /\ db' = [db EXCEPT ![args[p].ident] = Cleaned(args[p].data)]
          /\ trail' = [trail EXCEPT ![p] =
                         [called |-> @.called \cup {"update", "read"},
                          location |-> Some(EntryUrl(CollectionUrl, args[p].ident)),
                          errors |-> {}]]
          /\ Reply(p, "200")
     ELSE /\ trail' = [trail EXCEPT ![p].called = @ \cup {"update"},
                                  ![p].errors = errors(args[p].data)]
          /\ Reply(p, "400")
          /\ UNCHANGED db
  /\ UNCHANGED <<nonce, draws, call, loc, result, target, hist, overlap, args, basic, serialize, rnd>>

\* lines 128-129 and Entry.delete
entry_delete(p) ==
  /\ pc[p] = "l120"
  /\ args[p].is_entry /\ args[p].ident \in DOMAIN db
  /\ call[p].method = <<"DELETE">>
  /\ db' = [k \in DOMAIN db \ {args[p].ident} |-> db[k]]
  /\ trail' = Calls(p, "delete")
  /\ Reply(p, "200")
  /\ UNCHANGED <<nonce, draws, call, loc, result, target, hist, overlap, args, basic, serialize, rnd>>

\* lines 131-132: Collection.read
collection_read(p) ==
  /\ pc[p] = "l120"
  /\ ~args[p].is_entry
  /\ call[p].method = <<"GET">>
  /\ trail' = Calls(p, "read")
  /\ Reply(p, "200")
  /\ UNCHANGED <<nonce, draws, call, loc, result, target, hist, overlap, db, args, basic, serialize, rnd>>

\* lines 133-134 and Collection.create: the database picks the new primary key
collection_create(p) ==
  /\ pc[p] = "l120"
  /\ ~args[p].is_entry
  /\ call[p].method = <<"POST">>
  /\ IF is_valid(args[p].data)
     THEN \E pk \in (1..MaxModels) \ DOMAIN db :
            /\ db' = [k \in DOMAIN db \cup {pk} |->
                        IF k = pk THEN Cleaned(args[p].data) ELSE db[k]]
            /\ trail' = [trail EXCEPT ![p] =
                           [called |-> @.called \cup {"create", "read"},
                            location |-> Some(EntryUrl(CollectionUrl, pk)),
                            errors |-> {}]]
            /\ Reply(p, "201")
     ELSE /\ trail' = [trail EXCEPT ![p].called = @ \cup {"create"},
                                  ![p].errors = errors(args[p].data)]
          /\ Reply(p, "400")
          /\ UNCHANGED db
  /\ UNCHANGED <<nonce, draws, call, loc, result, target, hist, overlap, args, basic, serialize, rnd>>

\* line 143: no branch of the try block returned
l143(p) ==
  /\ pc[p] = "l120"
  /\ \/ args[p].is_entry /\ args[p].ident \in DOMAIN db
        /\ call[p].method \notin {<<"GET">>, <<"PUT">>, <<"DELETE">>}
     \/ ~args[p].is_entry /\ call[p].method \notin {<<"GET">>, <<"POST">>}
  /\ Reply(p, "400")
  /\ UNCHANGED <<nonce, draws, call, loc, result, target, hist, overlap, db, args, trail, basic, serialize, rnd>>

\* Resource.__call__ lines 76-86: the CRUD methods of Resource raise Http404
l76(p) ==
  /\ pc[p] = "l76"
  /\ trail' = CASE call[p].method = <<"GET">> -> Calls(p, "read")
                [] call[p].method = <<"POST">> -> Calls(p, "create")
                [] call[p].method = <<"PUT">> -> Calls(p, "update")
                [] call[p].method = <<"DELETE">> -> Calls(p, "delete")
                [] OTHER -> trail
  /\ Reply(p, "Http404")
  /\ UNCHANGED <<nonce, draws, call, loc, result, target, hist, overlap, db, args, basic, serialize, rnd>>

\* the resources behind an authenticator, addressed as collections
AuthResources == {res \in Resources : res.authentication # "None"}

DispatchNext ==
  \/ \E res \in AuthResources : \E r \in DispatchRequests : dispatch(Main, res, r, NoArgs)
  \/ is_authenticated(Main)
  \/ l110(Main)
  \/ l67(Main)
  \/ l109_raise(Main)
  \/ l111(Main)
  \/ collection_read(Main)
  \/ l76(Main)

DispatchSpec == Init /\ [][DispatchNext]_vars

\* the Poll collections of urls.py, which ask for no authentication

\* a request to a collection behind the Basic authenticator, with the
\* credentials of a known user

CrudNext ==
  \/ \E res \in {x \in Resources : x.authentication = "None"} :
       \E r \in PollRequests : \E a \in Args : dispatch(Main, res, r, a)
  \/ \E res \in {x \in AuthResources : x.dispatcher = "Collection" /\ x.authentication = "basic"} :
       \E r \in PollRequests
                 \cup {[BasicRequest("Basic", "full", B64Encode(Bytes(<<"a", ":", "b">>)))
                          EXCEPT !.method = m] : m \in {<<"GET">>, <<"DELETE">>}} :
         dispatch(Main, res, r, NoArgs)
  \/ l110(Main)
  \/ l111(Main)
  \/ get_entry_fails(Main)
  \/ entry_read(Main)
  \/ entry_update(Main)
  \/ entry_delete(Main)
  \/ collection_read(Main)
  \/ collection_create(Main)
  \/ l143(Main)

CrudSpec == Init /\ [][CrudNext]_vars

\* Two threads call the same HttpBasicAuthentication, each with its own
\* sequence of requests and challenges
Other == CHOOSE p \in Procs : p # Main

SharedBasicNext ==
  \E p \in {Main, Other} :
    \/ \E r \in DispatchRequests \cap BasicRequests : basic_is_authenticated(p, r)
    \/ basic_challenge(p)

SharedBasicSpec == Init /\ [][SharedBasicNext]_vars

\* ------------------------------------------------------------- SerializeResponder.render
\* render(object_list) is called with one Choice object: lines 48-49
render(p) ==
  /\ rnd[p].pc \in {"idle", "done", "raised"}
  /\ rnd' = [rnd EXCEPT ![p] = [pc |-> "l50", i |-> 1, hidden_fields |-> {}, response |-> {},
                                before |-> {f \in Range(ModelFields) : serialize[f]}]]
  /\ UNCHANGED <<nonce, draws, pc, call, loc, result, target, resp, hist, overlap, db, args,
                 trail, basic, serialize>>

\* lines 50-53, for one field: hide it when it is not exposed and not hidden
l50(p) ==
  /\ rnd[p].pc = "l50"
  /\ LET field == ModelFields[rnd[p].i]
         hide == field \notin expose_fields /\ serialize[field]
         next == IF rnd[p].i = Len(ModelFields) THEN "l54" ELSE "l50"
     IN  /\ serialize' = IF hide THEN [serialize EXCEPT ![field] = FALSE] ELSE serialize
         /\ rnd' = [rnd EXCEPT ![p].pc = next,
                               ![p].i = IF next = "l50" THEN @ + 1 ELSE 0,
                               ![p].hidden_fields = IF hide THEN @ \cup {field} ELSE @]
  /\ UNCHANGED <<nonce, draws, pc, call, loc, result, target, resp, hist, overlap, db, args,
                 trail, basic>>

\* line 54: the serializer writes the fields whose serialize flag is set
l54(p) ==
  /\ rnd[p].pc = "l54"
  /\ rnd' = [rnd EXCEPT ![p].pc = "l56",
                        ![p].response = {f \in Range(ModelFields) : serialize[f]}]
  /\ UNCHANGED <<nonce, draws, pc, call, loc, result, target, resp, hist, overlap, db, args,
                 trail, basic, serialize>>

\* line 54: serializers.serialize raises, for one because self.format names
\* no serializer; render has no handler, so the call ends here
l54_raise(p) ==
  /\ rnd[p].pc = "l54"
  /\ rnd' = [rnd EXCEPT ![p].pc = "raised"]
  /\ UNCHANGED <<nonce, draws, pc, call, loc, result, target, resp, hist, overlap, db, args,
                 trail, basic, serialize>>

\* lines 56-58: show the fields this call hid, then return
l56(p) ==
  /\ rnd[p].pc = "l56"
  /\ IF rnd[p].hidden_fields = {}
     THEN /\ rnd' = [rnd EXCEPT ![p].pc = "done"]
          /\ UNCHANGED serialize
     ELSE \E field \in rnd[p].hidden_fields :
            /\ serialize' = [serialize EXCEPT ![field] = TRUE]
            /\ rnd' = [rnd EXCEPT ![p].hidden_fields = @ \ {field}]
  /\ UNCHANGED <<nonce, draws, pc, call, loc, result, target, resp, hist, overlap, db, args,
                 trail, basic>>

\* threads render concurrently, switching between any two statements
RenderNext == \E p \in Procs : render(p) \/ l50(p) \/ l54(p) \/ l56(p)

RenderSpec == Init /\ [][RenderNext]_vars

\* The threads render one call after the other, never two at a time, with a
\* serializer that may raise, on a model any of whose fields may be
\* non-serializable from the start
RenderInit ==
  /\ nonce = [n \in {} |-> None]
  /\ draws = 0
  /\ pc = [p \in Procs |-> "idle"]
  /\ call = [p \in Procs |-> NoRequest]
  /\ loc = [p \in Procs |-> NoLocals]
  /\ result = [p \in Procs |-> "none"]
  /\ target = [p \in Procs |-> NoResource]
  /\ resp = [p \in Procs |-> "none"]
  /\ hist = [p \in Procs |-> <<>>]
  /\ overlap = [p \in Procs |-> {}]
  /\ db = (1 :> Cleaned("question" :> Q1 @@ "pub_date" :> D1))
  /\ args = [p \in Procs |-> NoArgs]
  /\ trail = [p \in Procs |-> NoTrail]
  /\ basic = BasicSelf
  /\ serialize \in [Range(ModelFields) -> BOOLEAN]
  /\ rnd = [p \in Procs |-> NoRender]

RenderSeqNext ==
  \E p \in Procs :
    \/ /\ \A q \in Procs \ {p} : rnd[q].pc \in {"idle", "done", "raised"}
       /\ render(p)
    \/ l50(p)
    \/ l54(p)
    \/ l54_raise(p)
    \/ l56(p)

RenderSeqSpec == RenderInit /\ [][RenderSeqNext]_vars

\* ------------------------------------------------------------- the count comparison
\* digits of a count that vary; the digits before them are 0
CounterDigits == 2

\* eight-digit counts over digits and hex letters of either case
Counters ==
  {SubSeq(NC0, 1, Len(NC0) - CounterDigits) \o t :
     t \in [1..CounterDigits -> {"0", "9", "A", "B", "a", "b"}]}

\* a thread stands before line 150 with any count nc, the store holding any
\* count for the nonce
CompareInit ==
  \E c \in Counters, p \in Counters :
    /\ nonce = [n \in {NonceOf(1)} |-> Some(p)]
    /\ draws = 1
    /\ pc = [q \in Procs |-> IF q = Main THEN "l150" ELSE "idle"]
    /\ call = [q \in Procs |->
                 IF q = Main THEN Request(Base(NonceOf(1), c, <<"johnspass">>)) ELSE NoRequest]
    /\ loc = [q \in Procs |->
                IF q = Main
                THEN [nonce |-> NonceOf(1), nc |-> c, pnc |-> None, asked |-> TRUE]
                ELSE NoLocals]
    /\ result = [q \in Procs |-> "none"]
    /\ target = [q \in Procs |-> NoResource]
    /\ resp = [q \in Procs |-> "none"]
    /\ hist = [q \in Procs |-> <<>>]
    /\ overlap = [q \in Procs |-> {}]
    /\ db = (1 :> Cleaned("question" :> Q1 @@ "pub_date" :> D1))
    /\ args = [q \in Procs |-> NoArgs]
    /\ trail = [q \in Procs |-> NoTrail]
    /\ basic = BasicSelf
    /\ serialize = [f \in Range(ModelFields) |-> TRUE]
    /\ rnd = [q \in Procs |-> NoRender]

CompareNext == l150(Main) \/ l152(Main) \/ l153(Main) \/ l155(Main)

CompareSpec == CompareInit /\ [][CompareNext]_vars

\* ------------------------------------------------------------- what the claims speak of
\* the nonces challenge() has issued so far
Issued == {NonceOf(k) : k \in 1..draws}

\* the value of a nonce count read as a hexadecimal number
DigitValue(c) ==
  LET upper == <<"0", "1", "2", "3", "4", "5", "6", "7", "8", "9",
                 "A", "B", "C", "D", "E", "F">>
  IN  (CHOOSE i \in 1..Len(HexTok) : HexTok[i] = c \/ upper[i] = c) - 1

RECURSIVE HexValue(_)
HexValue(s) ==
  IF s = <<>> THEN 0
  ELSE HexValue(SubSeq(s, 1, Len(s) - 1)) * Len(HexTok) + DigitValue(s[Len(s)])

\* the header of r splits into a scheme and parameters that all have an "="
HasSpace(r) == r.hasAuth /\ Find(r.auth, <<" ">>) # 0
Scheme(r) == SplitOnce(r.auth, <<" ">>)[1]
Params(r) == SplitOnce(r.auth, <<" ">>)[2]
AllItemsHaveEq(r) ==
  LET itms == SplitAll(Params(r), <<",", " ">>)
  IN  \A i \in 1..Len(itms) : Find(itms[i], <<"=">>) # 0
DigestParsed(r) == HasSpace(r) /\ Lower(Scheme(r)) = <<"digest">> /\ AllItemsHaveEq(r)

\* the fields a parsed header presents
Presented(r) == AMap(Params(r))
Has(r, k) == <<k>> \in DOMAIN Presented(r)
Field(r, k) == Presented(r)[<<k>>]

\* r carries every required field, and its response is the digest RFC 2617
\* prescribes for its own fields, the request's method and path, and the HA1
\* the credential function returns
ResponseIsServerDigest(r) ==
  /\ DigestParsed(r)
  /\ RequiredFields \subseteq DOMAIN Presented(r)
  /\ ~DigestAuthfunc(Field(r, "realm"), Field(r, "username")).raised
  /\ LET ha1 == DigestAuthfunc(Field(r, "realm"), Field(r, "username")).ha1
         ha2 == MD5(Fmt(<<r.method, r.script \o r.path>>))
     IN  Field(r, "response") =
           IF Has(r, "qop")
           THEN MD5(Fmt(<<ha1, Field(r, "nonce"), Get(Presented(r), <<"nc">>, NC0),
                          Get(Presented(r), <<"cnonce">>, <<>>), Field(r, "qop"), ha2>>))
           ELSE MD5(Fmt(<<ha1, Field(r, "nonce"), ha2>>))

\* a well-formed qop=auth request with a correct response
GoodRequest(r) ==
  /\ ResponseIsServerDigest(r)
  /\ Field(r, "realm") = Realm
  /\ Field(r, "uri") = r.script \o r.path
  /\ Has(r, "qop") /\ Field(r, "qop") = <<"auth">>
  /\ Has(r, "nc")

\* a header with no space after the scheme, with a parameter item without "=",
\* or without one of the required fields
MalformedDigest(r) ==
  /\ r.hasAuth
  /\ \/ ~HasSpace(r)
     \/ HasSpace(r) /\ Lower(Scheme(r)) = <<"digest">> /\ ~AllItemsHaveEq(r)
     \/ DigestParsed(r) /\ ~(RequiredFields \subseteq DOMAIN Presented(r))

\* these facts about every request, computed once
Facts ==
  [r \in Requests |->
     [parsed |-> DigestParsed(r),
      complete |-> DigestParsed(r) /\ RequiredFields \subseteq DOMAIN Presented(r),
      fields |-> IF DigestParsed(r) THEN Presented(r) ELSE [k \in {} |-> <<>>],
      serverDigest |-> ResponseIsServerDigest(r),
      good |-> GoodRequest(r),
      malformed |-> MalformedDigest(r)]]

F(p) == Facts[call[p]]
Sent(p, k) == Facts[call[p]].fields[<<k>>]

\* thread p's call returns in this step
Returns(p) == InFlight(p) /\ pc'[p] = "done"

\* ------------------------------------------------------------- claims

\* C1: after is_authenticated accepted a request for an issued nonce, the same
\* request presented a second time returns False, and a third time returns
\* False too.
C1_ReplayRejected ==
  \A p \in Procs :
    (/\ pc[p] = "done"
     /\ hist[p] # <<>>
     /\ hist[p][1] = "True"
     /\ loc[p].nonce \in Issued)
    => /\ result[p] = "False"
       /\ \A i \in 2..Len(hist[p]) : hist[p][i] = "False"

\* C2: once a failed call has deleted a nonce from the store, no later call
\* presenting that nonce value returns True.  challenge() stores every nonce it
\* issues and only a failed call deletes one, so the issued nonces the store
\* lacks are the deleted ones.
C2_RevokedNeverAccepted ==
  [][\A p \in Procs :
       (Returns(p) /\ result'[p] = "True")
       => ~(loc[p].nonce \in Issued /\ loc[p].nonce \notin DOMAIN nonce)]_vars

\* C3: two calls that run concurrently with the same issued nonce, the same nc
\* and a correct response never both return True.
C3_NeverTwoSuccesses ==
  \A p, q \in Procs :
    (/\ p # q
     /\ pc[p] = "done" /\ pc[q] = "done"
     /\ q \in overlap[p] \/ p \in overlap[q]
     /\ F(p).good /\ F(q).good
     /\ Sent(p, "nonce") = Sent(q, "nonce")
     /\ Sent(p, "nc") = Sent(q, "nc")
     /\ Sent(p, "nonce") \in Issued)
    => ~(result[p] = "True" /\ result[q] = "True")

\* C4: the read-compare-write on a nonce's stored count is atomic: a stored
\* count never decreases, and a call that is accepted writes a count strictly
\* greater than the count stored at that moment.
C4_CounterAtomic ==
  [][/\ \A n \in DOMAIN nonce \cap DOMAIN nonce' :
          (nonce[n] # None /\ nonce'[n] # None)
          => HexValue(nonce'[n][1]) >= HexValue(nonce[n][1])
     /\ \A p \in Procs :
          (Returns(p) /\ result'[p] = "True"
           /\ loc[p].nonce \in DOMAIN nonce /\ nonce[loc[p].nonce] # None)
          => HexValue(loc[p].nc) > HexValue(nonce[loc[p].nonce][1])]_vars

\* C5: for a nonce stored with last accepted count prev, a request with a
\* correct response and count nc is accepted exactly when nc > prev; accepting
\* stores nc for that nonce and changes no other entry; rejecting removes that
\* nonce and changes no other entry.
C5_MonotonicCounter ==
  [][\A p \in Procs :
       (/\ Returns(p)
        /\ F(p).good
        /\ Sent(p, "nonce") \in DOMAIN nonce
        /\ nonce[Sent(p, "nonce")] # None)
       => LET n == Sent(p, "nonce")
              nc == Sent(p, "nc")
              prev == nonce[n][1]
          IN  /\ result'[p] \in {"True", "False"}
              /\ (result'[p] = "True") <=> (HexValue(nc) > HexValue(prev))
              /\ result'[p] = "True" =>
                   /\ DOMAIN nonce' = DOMAIN nonce
                   /\ nonce'[n] = Some(nc)
              /\ result'[p] = "False" => DOMAIN nonce' = DOMAIN nonce \ {n}
              /\ \A m \in DOMAIN nonce \ {n} : nonce'[m] = nonce[m]]_vars

\* C5 happens: a count above the stored one was accepted and stored
C5_Witness ==
  \E p \in Procs :
    /\ pc[p] = "done" /\ result[p] = "True"
    /\ F(p).good
    /\ loc[p].pnc # None
    /\ Sent(p, "nonce") \in Issued
    /\ HexValue(Sent(p, "nc")) > HexValue(loc[p].pnc[1])
    /\ nonce[Sent(p, "nonce")] = Some(Sent(p, "nc"))

\* C6: a request that answers a nonce challenge() issued and nobody used since,
\* with the configured realm, the request path as uri, qop=auth, nc=00000001
\* and the correct response, is accepted.
C6_DigestCorrect ==
  [][\A p \in Procs :
       (/\ Returns(p)
        /\ F(p).good
        /\ Sent(p, "nc") = NCStr(1)
        /\ Sent(p, "nonce") \in DOMAIN nonce
        /\ nonce[Sent(p, "nonce")] = None)
       => result'[p] = "True"]_vars

\* C6 happens: the answer to a fresh nonce was accepted
C6_Witness ==
  \E p \in Procs :
    /\ pc[p] = "done" /\ result[p] = "True"
    /\ F(p).good
    /\ Sent(p, "nc") = NCStr(1)
    /\ Sent(p, "nonce") \in Issued
    /\ loc[p].pnc = None
    /\ hist[p] = <<>>

\* C7: is_authenticated returns False, and does not raise, for a header with
\* no space after the scheme, with a parameter item without "=", or without
\* one of the required fields.
C7_MalformedIsFalse ==
  \A p \in Procs :
    (pc[p] = "done" /\ F(p).malformed) => result[p] = "False"

\* C10 as claimed: False whenever the presented realm is not the configured one
\* or the presented uri, query string stripped, is not the request's full path.
UriSansQuery(p) == SplitOnce(Sent(p, "uri"), <<"?">>)[1]

C10_UriMustEqualPath ==
  \A p \in Procs :
    (/\ pc[p] = "done"
     /\ F(p).complete
     /\ \/ Sent(p, "realm") # Realm
        \/ UriSansQuery(p) # call[p].script \o call[p].path)
    => result[p] = "False"

\* C10, amended: False whenever the presented realm is not the configured one
\* or the presented uri, query string stripped, does not occur in the
\* request's full path.
C10_RealmAndUriChecked ==
  \A p \in Procs :
    (/\ pc[p] = "done"
     /\ F(p).complete
     /\ \/ Sent(p, "realm") # Realm
        \/ Find(call[p].script \o call[p].path, UriSansQuery(p)) = 0)
    => result[p] = "False"

\* C10 happens: a request whose response is the digest the server computes
\* was refused because its uri does not occur in the request's full path
C10_Witness ==
  \E p \in Procs :
    /\ pc[p] = "done" /\ result[p] = "False"
    /\ F(p).serverDigest
    /\ Find(call[p].script \o call[p].path, UriSansQuery(p)) = 0


\* C9: HttpBasicAuthentication.is_authenticated returns False, and does not
\* raise, when the header is absent, has no space, names another scheme than
\* basic, carries a parameter that is not valid base64, or decodes to a value
\* without a colon.
BasicParam(r) == Strip(SplitOnce(r.auth, <<" ">>)[2])

\* valid base64: whole quads of alphabet characters, the last one padded or not
ValidBase64(s) ==
  /\ Len(s) % 4 = 0
  /\ \A i \in 1..Len(s) :
       \/ s[i] \in B64Set
       \/ s[i] = "=" /\ i > Len(s) - 2 /\ \A j \in i..Len(s) : s[j] = "="

MalformedBasic(r) ==
  \/ ~r.hasAuth
  \/ Find(r.auth, <<" ">>) = 0
  \/ Lower(Scheme(r)) # <<"basic">>
  \/ ~ValidBase64(BasicParam(r))
  \/ Find(Base64Decode(BasicParam(r)).data, <<Colon>>) = 0

BasicMalformed == [r \in BasicRequests |-> MalformedBasic(r)]

C9_BasicMalformedIsFalse ==
  \A p \in Procs :
    (pc[p] = "done" /\ BasicMalformed[call[p]]) => result[p] = "False"

\* C8: when the credential function raises, is_authenticated returns False and
\* the dispatcher answers with the 401 challenge.
ProviderRaised ==
  [r \in Requests |->
     /\ DigestParsed(r)
     /\ RequiredFields \subseteq DOMAIN Presented(r)
     /\ TryBlock(Presented(r), r)
     /\ DigestAuthfunc(Field(r, "realm"), Field(r, "username")).raised]

C8_ProviderFailureDenied ==
  \A p \in Procs :
    (/\ pc[p] \in {"done", "replied"}
     /\ target[p] # NoResource /\ target[p].authentication = "digest"
     /\ ProviderRaised[call[p]])
    => /\ result[p] = "False"
       /\ pc[p] = "replied" => resp[p] = "401"

\* C11: a header that carries qop is refused unless qop is "auth" and the
\* header carries both nonce and nc.
C11_QopNeedsNonceAndNc ==
  \A p \in Procs :
    (/\ pc[p] = "done"
     /\ F(p).parsed
     /\ <<"qop">> \in DOMAIN F(p).fields
     /\ ~(/\ Sent(p, "qop") = <<"auth">>
          /\ <<"nonce">> \in DOMAIN F(p).fields
          /\ <<"nc">> \in DOMAIN F(p).fields))
    => result[p] = "False"

\* C12 as claimed: for every username and password, colons included, the call
\* on "Basic " + base64(username:password) returns the credential function's
\* verdict for that username and that password.
RoundTrip ==
  [c \in CredStrings \X CredStrings |->
     BasicRequest("Basic", "full", B64Encode(Bytes(c[1] \o <<":">> \o c[2])))]
Verdict(u, pw) == IF djangouser_auth(Bytes(u), Bytes(pw)) THEN "True" ELSE "False"

C12_RoundTripAnyUsername ==
  \A p \in Procs : \A c \in DOMAIN RoundTrip :
    (pc[p] = "done" /\ call[p] = RoundTrip[c]) => result[p] = Verdict(c[1], c[2])

\* C12, amended: the same for every username without a colon and every
\* password, colons included.
C12_RoundTrip ==
  \A p \in Procs : \A c \in DOMAIN RoundTrip :
    (pc[p] = "done" /\ call[p] = RoundTrip[c] /\ ~Contains(<<":">>, c[1]))
    => result[p] = Verdict(c[1], c[2])

\* C12 happens: an accepted password that contains a colon made the round trip
C12_Witness ==
  \E p \in Procs : \E c \in DOMAIN RoundTrip :
    /\ pc[p] = "done" /\ call[p] = RoundTrip[c]
    /\ ~Contains(<<":">>, c[1]) /\ Contains(<<":">>, c[2])
    /\ djangouser_auth(Bytes(c[1]), Bytes(c[2]))
    /\ result[p] = "True"

C14_ChallengeAddsOneEntry ==
  [][draws' # draws =>
       LET new == DigestChallenge(draws').nonce IN
         /\ DigestChallenge(draws').status_code = 401
         /\ new \notin DOMAIN nonce
         /\ DOMAIN nonce' = DOMAIN nonce \cup {new}
         /\ nonce'[new] = None
         /\ \A m \in DOMAIN nonce : nonce'[m] = nonce[m]]_vars

\* C14 happens: a challenge was issued while the store held a used nonce
C14_Witness ==
  /\ draws = 2
  /\ NonceOf(1) \in DOMAIN nonce /\ nonce[NonceOf(1)] # None
  /\ NonceOf(2) \in DOMAIN nonce /\ nonce[NonceOf(2)] = None

\* C15: a request that passes the checks of the try block and whose response
\* is not the digest the server computes gets False, its nonce is not in the
\* store afterwards, and every other entry is as it was.
Validated ==
  [r \in Requests |->
     /\ DigestParsed(r)
     /\ RequiredFields \subseteq DOMAIN Presented(r)
     /\ TryBlock(Presented(r), r)]

WrongResponse(p) ==
  /\ Validated[call[p]]
  /\ ~ProviderRaised[call[p]]
  /\ ~F(p).serverDigest

C15_MismatchScrubsNonce ==
  [][\A p \in Procs :
       (Returns(p) /\ WrongResponse(p))
       => LET n == Sent(p, "nonce") IN
            /\ result'[p] = "False"
            /\ n \notin DOMAIN nonce'
            /\ \A m \in DOMAIN nonce \ {n} :
                 m \in DOMAIN nonce' /\ nonce'[m] = nonce[m]]_vars

\* C15 happens: a wrong response removed an issued nonce and a used one stayed
C15_Witness ==
  \E p \in Procs :
    /\ pc[p] = "done" /\ result[p] = "False"
    /\ WrongResponse(p)
    /\ Sent(p, "nonce") \in Issued
    /\ Sent(p, "nonce") \notin DOMAIN nonce
    /\ \E m \in DOMAIN nonce : nonce[m] # None

\* C16: whichever dispatcher has an authenticator, a request for which
\* is_authenticated returned False is answered with the 401 challenge, and no
\* create, read, update or delete method was called for it.
C16_FalseIsChallenged ==
  \A p \in Procs :
    (/\ pc[p] = "replied"
     /\ target[p] # NoResource /\ target[p].authentication # "None"
     /\ result[p] = "False")
    => /\ resp[p] = "401"
       /\ trail[p].called = {}

\* C17: HttpBasicAuthentication keeps no state.  No step changes its
\* attributes, and two threads that were given the same request hold the same
\* verdict, whatever requests and challenges each of them served before.
C17_BasicKeepsNoState ==
  [][/\ basic' = basic
     /\ \A p, q \in Procs :
          (/\ pc'[p] \in {"done", "replied"} /\ pc'[q] \in {"done", "replied"}
           /\ call'[p] = call'[q])
          => result'[p] = result'[q]]_vars

\* C17 happens: a thread that was refused and challenged is then accepted with
\* the request the other thread was accepted with at its first call
C17_Witness ==
  /\ pc[Main] = "done" /\ result[Main] = "True" /\ resp[Main] = "401"
  /\ pc[Other] = "done" /\ result[Other] = "True" /\ resp[Other] = "none"
  /\ call[Main] = call[Other]

\* C18: challenge() is safe next to concurrent challenge() and is_authenticated
\* calls.  No call raises; the nonce a challenge inserts is in the store with
\* no count when the challenge returns and every other entry is as it was; a
\* step of is_authenticated changes no entry but that of the nonce presented.
C18_ConcurrentChallengeSafe ==
  [][/\ \A p \in Procs : Returns(p) => result'[p] # "Raise"
     /\ draws' # draws
        => /\ NonceOf(draws') \in DOMAIN nonce' /\ nonce'[NonceOf(draws')] = None
           /\ \A n \in DOMAIN nonce : n \in DOMAIN nonce' /\ nonce'[n] = nonce[n]
     /\ \A p \in Procs :
          (InFlight(p) /\ pc'[p] # pc[p])
          => \A n \in (DOMAIN nonce \cup DOMAIN nonce') \ {loc[p].nonce} :
               n \in DOMAIN nonce /\ n \in DOMAIN nonce' /\ nonce'[n] = nonce[n]]_vars

\* C19: a request whose method is not among the resource's permitted_methods
\* is answered with 405, and the stored models are what they were when the
\* request came in.
C19_RefusedMethodIs405 ==
  [][\A p \in Procs :
       (/\ pc[p] # "replied" /\ pc'[p] = "replied"
        /\ call[p].method \notin target[p].permitted_methods)
       => /\ resp'[p] = "405"
          /\ db' = db
          /\ trail'[p].called = {}]_vars

\* C19, amended: the same for a request that passed the authentication check
\* of the resource, or whose resource has no authenticator.
C19_RefusedMethodChangesNothing ==
  [][\A p \in Procs :
       (/\ pc[p] = "l111" \/ (pc[p] = "done" /\ result[p] = "True")
        /\ pc'[p] # pc[p]
        /\ target[p] # NoResource
        /\ call[p].method \notin target[p].permitted_methods)
       => /\ resp'[p] = "405" /\ pc'[p] = "replied"
          /\ db' = db
          /\ trail'[p].called = {}]_vars

\* C19 happens: DELETE of a stored poll through the GET-only collection was
\* answered with 405 and the poll is still stored
C19_Witness ==
  /\ pc[Main] = "replied" /\ resp[Main] = "405"
  /\ call[Main].method = <<"DELETE">>
  /\ target[Main].permitted_methods = {<<"GET">>}
  /\ args[Main].is_entry /\ args[Main].ident \in DOMAIN db

\* the data of the request is complete and clean, as the form of the Poll
\* model demands: a question, and a pub_date that reads year-month-day
ValidData(d) ==
  /\ DOMAIN d = {"question", "pub_date"}
  /\ d["question"] # <<>>
  /\ d["pub_date"] \in {D1, D2}

\* C20: a POST to a collection or a PUT to an entry whose data fails validation
\* is answered with 400 and leaves the stored models and their field values
\* as they were; valid data is answered with 201 and a Location header when a
\* model is created, and with 200 when one is updated.
C20_InvalidDataIs400 ==
  [][\A p \in Procs :
       (/\ pc[p] = "l120" /\ pc'[p] = "replied"
        /\ \/ ~args[p].is_entry /\ call[p].method = <<"POST">>
           \/ args[p].is_entry /\ call[p].method = <<"PUT">> /\ args[p].ident \in DOMAIN db)
       => IF ValidData(args[p].data)
          THEN IF args[p].is_entry
               THEN /\ resp'[p] = "200"
                    /\ DOMAIN db' = DOMAIN db
                    /\ db'[args[p].ident].question = args[p].data["question"]
                    /\ \A k \in DOMAIN db \ {args[p].ident} : db'[k] = db[k]
               ELSE /\ resp'[p] = "201"
                    /\ trail'[p].location # None
                    /\ \E k \in DOMAIN db' \ DOMAIN db :
                         /\ DOMAIN db' = DOMAIN db \cup {k}
                         /\ db'[k].question = args[p].data["question"]
                         /\ trail'[p].location = Some(EntryUrl(CollectionUrl, k))
                    /\ \A k \in DOMAIN db : db'[k] = db[k]
          ELSE /\ resp'[p] = "400"
               /\ db' = db]_vars

\* C20 happens: a PUT with a malformed date was answered with 400 while the
\* poll it addressed, created by an earlier POST, is stored as it was created
C20_Witness ==
  /\ pc[Main] = "replied" /\ resp[Main] = "400"
  /\ call[Main].method = <<"PUT">> /\ args[Main].is_entry
  /\ args[Main].data = ("question" :> Q2 @@ "pub_date" :> DBad)
  /\ args[Main].ident \in DOMAIN db /\ db[args[Main].ident].question = Q1
  /\ Cardinality(DOMAIN db) = MaxModels

\* C22: a nonce that a failed call removed from the store is not in the store
\* again afterwards: no step, and so no successful call running concurrently,
\* writes a revoked nonce back.
C22_RevokedStaysAbsent ==
  [][\A n \in Issued \ DOMAIN nonce : n \notin DOMAIN nonce']_vars

\* C23: calls that fail concurrently on the same nonce, by a wrong response or
\* a stale count, all return False: none of them raises.
C23_ConcurrentFailuresReturnFalse ==
  \A p \in Procs :
    (/\ pc[p] = "done"
     /\ overlap[p] # {}
     /\ \E q \in overlap[p] : call[q] # NoRequest /\ Sent(q, "nonce") = Sent(p, "nonce")
     /\ loc[p].nonce \in Issued)
    => result[p] # "Raise"

\* C24: is_authenticated returns True only for a nonce that is in the store,
\* where challenge() put it; a nonce the client invented is never accepted, and
\* an accepted call adds no key to the store.
C24_OnlyStoredNoncesAccepted ==
  [][\A p \in Procs :
       (Returns(p) /\ result'[p] = "True")
       => /\ loc[p].nonce \in DOMAIN nonce
          /\ loc[p].nonce \in Issued
          /\ DOMAIN nonce' \subseteq DOMAIN nonce]_vars

\* the request fails before its response is compared: it has no Authorization
\* header, names another scheme, lacks a required field, has a uri that is not
\* part of the path or a realm other than the authenticator's, or names a qop
\* other than auth
FailsEarly ==
  [r \in Requests |->
     \/ ~r.hasAuth
     \/ HasSpace(r) /\ Lower(Scheme(r)) # <<"digest">>
     \/ /\ DigestParsed(r)
        /\ \/ ~(RequiredFields \subseteq DOMAIN Presented(r))
           \/ /\ RequiredFields \subseteq DOMAIN Presented(r)
              /\ \/ ~UriAccepted(Field(r, "uri"), r.script \o r.path)
                 \/ Field(r, "realm") # Realm
                 \/ Has(r, "qop") /\ Field(r, "qop") \notin {<<>>, <<"auth">>}]

\* C25: a call that fails before the response comparison returns False, leaves
\* the nonce store as it was and does not call the credential function; an
\* entry leaves the store only at the deletions that follow a response
\* mismatch or a count that is not greater than the stored one.
C25_EarlyFailureTouchesNothing ==
  [][/\ \A p \in Procs :
          (Returns(p) /\ FailsEarly[call[p]])
          => /\ result'[p] = "False"
             /\ nonce' = nonce
             /\ ~loc'[p].asked
     /\ (\E n \in DOMAIN nonce : n \notin DOMAIN nonce')
        => \E p \in Procs : pc[p] \in {"l148", "l153"} /\ pc'[p] = "done"]_vars

\* C25 happens: a request with another realm was refused while the nonce it
\* names is still in the store
C25_Witness ==
  \E p \in Procs :
    /\ pc[p] = "done" /\ result[p] = "False"
    /\ FailsEarly[call[p]]
    /\ F(p).complete /\ Sent(p, "realm") # Realm
    /\ Sent(p, "nonce") \in DOMAIN nonce
    /\ ~loc[p].asked

\* C26: a request without qop and without nc that carries the correct response
\* MD5(HA1:nonce:HA2) is accepted when its nonce is in the store and was never
\* used, and the store then holds "00000000" for the nonce; otherwise, used
\* nonce or nonce not in the store, it is rejected and the nonce is not in the
\* store afterwards.  No used nonce becomes unused again, so it is accepted once.
C26_NoQopAcceptedOnce ==
  [][/\ \A p \in Procs :
          (/\ Returns(p)
           /\ F(p).serverDigest /\ Validated[call[p]]
           /\ <<"qop">> \notin DOMAIN F(p).fields /\ <<"nc">> \notin DOMAIN F(p).fields)
          => LET n == Sent(p, "nonce") IN
               IF n \in DOMAIN nonce /\ nonce[n] = None
               THEN result'[p] = "True" /\ nonce'[n] = Some(NC0)
               ELSE result'[p] = "False" /\ n \notin DOMAIN nonce'
     /\ \A n \in DOMAIN nonce' :
          nonce'[n] = None => (n \notin Issued \/ (n \in DOMAIN nonce /\ nonce[n] = None))]_vars

\* C26 happens: the request without qop was accepted for the fresh nonce
C26_Witness ==
  \E p \in Procs :
    /\ pc[p] = "done" /\ result[p] = "True"
    /\ F(p).serverDigest
    /\ <<"qop">> \notin DOMAIN F(p).fields /\ <<"nc">> \notin DOMAIN F(p).fields
    /\ Sent(p, "nonce") \in DOMAIN nonce
    /\ nonce[Sent(p, "nonce")] = Some(NC0)

\* C27: an entry leaves the store only in a call that presents its nonce and
\* fails the response comparison or the count check.  challenge() and accepted
\* calls remove nothing, so the store never shrinks but by a failed use.
C27_OnlyFailedUseRemoves ==
  [][/\ \A n \in DOMAIN nonce \ DOMAIN nonce' :
          \E p \in Procs :
            /\ pc[p] \in {"l148", "l153"} /\ pc'[p] = "done"
            /\ loc[p].nonce = n
            /\ result'[p] = "False"
     /\ (draws' # draws \/ \E p \in Procs : Returns(p) /\ result'[p] = "True")
        => /\ DOMAIN nonce \subseteq DOMAIN nonce'
           /\ Cardinality(DOMAIN nonce') >= Cardinality(DOMAIN nonce)]_vars

\* C27 happens: the second nonce was removed by a failed use, and the first,
\* issued and never accepted, is still in the store
C27_Witness ==
  /\ draws = 2
  /\ NonceOf(1) \in DOMAIN nonce /\ nonce[NonceOf(1)] = None
  /\ NonceOf(2) \notin DOMAIN nonce
  /\ pc[Main] = "done" /\ result[Main] = "False" /\ loc[Main].nonce = NonceOf(2)

\* C28: for two eight-digit counts nc and p over the digits and the hex letters
\* of either case, nc <= p as is_authenticated evaluates it is nc <= p for the
\* numbers the two strings denote in hexadecimal.
C28_StringOrderIsHexOrder ==
  \A q \in Procs :
    (pc[q] \in {"l152", "l155"} /\ loc[q].pnc # None)
    => ((pc[q] = "l152") <=> (HexValue(loc[q].nc) <= HexValue(loc[q].pnc[1])))

\* C28, amended: the same for two counts whose letters are all lowercase or
\* all uppercase.
C28_OneCaseOrderIsHexOrder ==
  \A q \in Procs :
    (/\ pc[q] \in {"l152", "l155"} /\ loc[q].pnc # None
     /\ LET s == loc[q].nc \o loc[q].pnc[1]
        IN  \/ \A i \in 1..Len(s) : s[i] \notin {"A", "B", "C", "D", "E", "F"}
            \/ \A i \in 1..Len(s) : s[i] \notin {"a", "b", "c", "d", "e", "f"})
    => ((pc[q] = "l152") <=> (HexValue(loc[q].nc) <= HexValue(loc[q].pnc[1])))

\* C28 happens: a count with a lowercase letter passed the comparison with a
\* stored count that ends in the digit 9
C28_Witness ==
  /\ pc[Main] = "l155" /\ loc[Main].pnc # None
  /\ loc[Main].nc[Len(NC0)] = "a"
  /\ loc[Main].pnc[1][Len(NC0)] = "9"
  /\ loc[Main].nc[Len(NC0) - 1] = loc[Main].pnc[1][Len(NC0) - 1]

\* is_authenticated(r) run from store st by one thread with no other thread
\* about: what it returns and the store it leaves
Run(r, st) ==
  LET o == HeadOf[r]
      scrubbed == [result |-> "False", nonce |-> Del(st, o.nonce)]
  IN  CASE o.out \in {"False", "Raise"} -> [result |-> o.out, nonce |-> st]
        [] o.out = "mismatch" ->
             IF o.nonce \in DOMAIN st THEN scrubbed ELSE [result |-> "False", nonce |-> st]
        [] o.out = "match" ->
             IF CounterStale(o.nc, Get(st, o.nonce, Some(NC0)))
             THEN IF o.nonce \in DOMAIN st THEN scrubbed ELSE [result |-> "False", nonce |-> st]
             ELSE [result |-> "True", nonce |-> Put(st, o.nonce, Some(o.nc))]

\* the requests that differ from r in the opaque field only: another value,
\* or none
OpaqueSiblings ==
  [r \in Requests |->
     {r2 \in Requests \ {r} :
        /\ Facts[r].parsed /\ Facts[r2].parsed
        /\ r2.method = r.method /\ r2.script = r.script /\ r2.path = r.path
        /\ DOMAIN Facts[r].fields \ {<<"opaque">>} = DOMAIN Facts[r2].fields \ {<<"opaque">>}
        /\ \A k \in DOMAIN Facts[r].fields \ {<<"opaque">>} :
             Facts[r2].fields[k] = Facts[r].fields[k]}]

\* C29: the verdict does not depend on opaque.  When a call returns, each
\* request that differs from its request in the opaque field only, run from
\* the store the call started from, returns the same and leaves the same store.
C29_OpaqueIgnored ==
  [][\A p \in Procs :
       Returns(p)
       => \A r2 \in OpaqueSiblings[call[p]] :
            Run(r2, nonce) = [result |-> result'[p], nonce |-> nonce']]_vars

\* C29 happens: a request that answers the first challenge with the opaque
\* value of the second was accepted
C29_Witness ==
  \E p \in Procs :
    /\ pc[p] = "done" /\ result[p] = "True"
    /\ OpaqueSiblings[call[p]] # {}
    /\ <<"opaque">> \in DOMAIN F(p).fields
    /\ Sent(p, "nonce") = NonceOf(1) /\ Sent(p, "opaque") = OpaqueOf(2)

\* C30: the dispatcher checks authentication before the method.  A request
\* for which is_authenticated returned False is answered 401 whether its method
\* is permitted or not, and 405 is answered only when is_authenticated returned
\* True or the resource has no authenticator.
C30_AuthenticationBeforeMethod ==
  \A p \in Procs :
    (pc[p] = "replied" /\ target[p] # NoResource)
    => /\ (target[p].authentication # "None" /\ result[p] = "False") => resp[p] = "401"
       /\ resp[p] = "405" => (target[p].authentication = "None" \/ result[p] = "True")

\* C21: a render call that has returned serialized exposed fields only,
\* whatever other render calls ran at the same time.
C21_OnlyExposedFieldsSerialized ==
  \A p \in Procs :
    rnd[p].pc \in {"l56", "done"} => rnd[p].response \subseteq expose_fields

\* C31: dispatch answers every permitted request with a response and never
\* raises: an entry that is not stored gives 404, data that fails validation
\* gives 400 with the form errors, and a permitted method without a handler
\* for the kind of target (POST on an entry, PUT or DELETE on a collection)
\* gives 400 and changes no model.
C31_EveryOutcomeIsAResponse ==
  [][\A p \in Procs :
       (pc[p] = "l120" /\ pc'[p] # "l120")
       => /\ pc'[p] = "replied" /\ resp'[p] \in {"200", "201", "400", "404"}
          /\ (args[p].is_entry /\ args[p].ident \notin DOMAIN db)
             => (resp'[p] = "404" /\ db' = db)
          /\ (/\ ~ValidData(args[p].data)
              /\ \/ ~args[p].is_entry /\ call[p].method = <<"POST">>
                 \/ /\ args[p].is_entry /\ args[p].ident \in DOMAIN db
                    /\ call[p].method = <<"PUT">>)
             => (resp'[p] = "400" /\ trail'[p].errors # {} /\ db' = db)
          /\ (\/ args[p].is_entry /\ call[p].method = <<"POST">>
              \/ ~args[p].is_entry /\ call[p].method \in {<<"PUT">>, <<"DELETE">>})
             => (resp'[p] = "400" /\ db' = db)]_vars

\* C31, amended: the same, where the POST on an entry is one on a stored
\* entry; get_entry runs before the method is looked at, so an entry that is
\* not stored gives 404 whatever the method.
C31_LookupBeforeMethod ==
  [][\A p \in Procs :
       (pc[p] = "l120" /\ pc'[p] # "l120")
       => /\ pc'[p] = "replied" /\ resp'[p] \in {"200", "201", "400", "404"}
          /\ (args[p].is_entry /\ args[p].ident \notin DOMAIN db)
             => (resp'[p] = "404" /\ db' = db /\ trail'[p].called = {})
          /\ (/\ ~ValidData(args[p].data)
              /\ \/ ~args[p].is_entry /\ call[p].method = <<"POST">>
                 \/ /\ args[p].is_entry /\ args[p].ident \in DOMAIN db
                    /\ call[p].method = <<"PUT">>)
             => (resp'[p] = "400" /\ trail'[p].errors # {} /\ db' = db)
          /\ (\/ /\ args[p].is_entry /\ args[p].ident \in DOMAIN db
                 /\ call[p].method = <<"POST">>
              \/ ~args[p].is_entry /\ call[p].method \in {<<"PUT">>, <<"DELETE">>})
             => (/\ resp'[p] = "400" /\ db' = db
                 /\ trail'[p].called = {} /\ trail'[p].errors = {})]_vars

\* C31 happens: a POST on a stored entry, through a collection that permits
\* POST, was answered with 400 and no CRUD method ran
C31_Witness ==
  /\ pc[Main] = "replied" /\ resp[Main] = "400"
  /\ call[Main].method = <<"POST">> /\ <<"POST">> \in target[Main].permitted_methods
  /\ args[Main].is_entry /\ args[Main].ident \in DOMAIN db
  /\ trail[Main].called = {} /\ trail[Main].errors = {}

\* C32: when a render call ends, by returning or because the serializer
\* raised, every field's serialize flag is what it was when the call began;
\* and no step of a call sets the flag of a field that was non-serializable
\* when the call began.
C32_FlagsRestored ==
  [][\A p \in Procs :
       /\ (rnd[p].pc \notin {"idle", "done", "raised"} /\ rnd'[p].pc \in {"done", "raised"})
          => {f \in Range(ModelFields) : serialize'[f]} = rnd[p].before
       /\ rnd[p].pc \notin {"idle", "done", "raised"}
          => \A f \in Range(ModelFields) \ rnd[p].before : ~serialize'[f]]_vars

====
